---- MODULE Spec2Model ----
(***************************************************************************)
(* Holiday reminder bot (german-holidays).  The model follows              *)
(* src/src/index.ts (the variant with the remote holiday source and the    *)
(* in-memory cache), with the periodic broadcast of src/unnamed/part_000   *)
(* and the uncached selector of src/unnamed/part_001 beside it.            *)
(*                                                                         *)
(* Time is counted in whole hours.  A holiday's date string "YYYY-MM-DD"   *)
(* is the pair <<year, day>>; new Date(date) is midnight UTC of that day.  *)
(* The server's local time zone is taken to be UTC, so getHours(),         *)
(* getFullYear() and toISOString() all read the same calendar.             *)
(***************************************************************************)
EXTENDS Integers, Sequences, FiniteSets, TLC

VARIABLES
    now,            \* the wall clock (what new Date() reads), in hours
    proc,           \* "running", or "crashed" after an unhandled rejection
    activeChatIds,  \* the subscriber registry
    holidaysCache,  \* the cached holiday list
    lastFetchYear,  \* the year holidaysCache was fetched for, 0 at start
    st,             \* the bot.start handler suspended in getUpcomingHolidays
    chk,            \* the timer callback suspended in isTodayHoliday
    timers,         \* the armed one-shot timers
    sends,          \* messages handed to the transport and not yet settled
    sel,            \* input and output of a function, for the function checks
    health,         \* history: the last /health response, kept while it can be
                    \* compared with the next one
    stale,          \* history: the sends in flight that were started before the
                    \* latest /start of their addressee
    failedYear      \* history: the year read by the latest getUpcomingHolidays
                    \* call that had a fetch fail, 0 if none

vars == <<now, proc, activeChatIds, holidaysCache, lastFetchYear,
          st, chk, timers, sends, sel, health, stale, failedYear>>

----------------------------------------------------------------------------
(* Bounds of the model *)

DaysPerYear == 3
StartHour == 4
MaxTicks == 5
MaxInFlight == 2
MaxLen == 3
MaxCount == 3
MaxDays == 125

(* Constants of the program *)

HoursPerDay == 24
DelayHours == 6
NightFrom == 22
NightUntil == 8
WelcomeCount == 2

Chats == {1, 2}
REGION_CODE == "DE-BW"

----------------------------------------------------------------------------
(* The calendar: Date#getFullYear, getHours, toISOString, new Date(string) *)

HoursPerYear == DaysPerYear * HoursPerDay

TimeOf(year, day, hour) == (year * DaysPerYear + day) * HoursPerDay + hour

GetFullYear(t) == t \div HoursPerYear

GetHours(t) == t % HoursPerDay

\* now.toISOString().split('T')[0]
ToISODate(t) == <<t \div HoursPerYear, (t % HoursPerYear) \div HoursPerDay>>

\* new Date(holiday.date).getTime()
ParseDate(d) == TimeOf(d[1], d[2], 0)

Min(a, b) == IF a < b THEN a ELSE b

\* Math.ceil(n / d) for d > 0
CeilDiv(n, d) == -((-n) \div d)

----------------------------------------------------------------------------
(* The holiday source: what the API answers for a year, in its own order *)

SourceHolidays(year) ==
    << [date |-> <<year, 1>>, localName |-> "B", global |-> FALSE,
        counties |-> {"DE-BW", "DE-BY"}],
       [date |-> <<year, 2>>, localName |-> "X", global |-> FALSE,
        counties |-> {"DE-BY"}],
       [date |-> <<year, 0>>, localName |-> "A", global |-> TRUE,
        counties |-> {}] >>

\* a fetch that answers with the list whether or not the request failed
FetchIgnoringFailure(year, ok) == SourceHolidays(year)

\* fetchHolidays: the list on success, the empty list on any failure
FetchHolidays(year, ok) == IF ok THEN SourceHolidays(year) ELSE <<>>

RegionApplicable(h) == h.global \/ REGION_CODE \in h.counties

\* getHolidaysForRegion
GetHolidaysForRegion(year, ok) ==
    SelectSeq(FetchHolidays(year, ok), RegionApplicable)

\* hd.getHolidays(year) of the bundled regional calendar (part_001)
HdGetHolidays(year) == SelectSeq(SourceHolidays(year), RegionApplicable)

----------------------------------------------------------------------------
(* The selector: filter, sort, slice *)

\* a filter that keeps a holiday whose date equals now
FutureOrNow(list, t) == SelectSeq(list, LAMBDA h : ParseDate(h.date) >= t)

\* holidaysCache.filter(holiday => new Date(holiday.date) > now)
FutureOnly(list, t) == SelectSeq(list, LAMBDA h : ParseDate(h.date) > t)

RECURSIVE InsertByDate(_, _)
InsertByDate(h, sorted) ==
    IF sorted = <<>> THEN <<h>>
    ELSE IF ParseDate(h.date) - ParseDate(Head(sorted).date) < 0
         THEN <<h>> \o sorted
         ELSE <<Head(sorted)>> \o InsertByDate(h, Tail(sorted))

\* Array.prototype.sort with the date comparator (stable)
RECURSIVE SortByDate(_)
SortByDate(list) ==
    IF list = <<>> THEN <<>>
    ELSE InsertByDate(list[Len(list)], SortByDate(SubSeq(list, 1, Len(list) - 1)))

Slice(list, count) == SubSeq(list, 1, Min(count, Len(list)))

\* lines 73-79 of getUpcomingHolidays, on the list it holds
UpcomingFrom(list, t, count) == Slice(SortByDate(FutureOnly(list, t)), count)

\* getUpcomingHolidays of part_001: no cache, both years from the calendar
UncachedUpcoming(t, count) ==
    UpcomingFrom(HdGetHolidays(GetFullYear(t)) \o HdGetHolidays(GetFullYear(t) + 1),
                 t, count)

\* a refresh condition that looks at the year only
YearChangedOnly(t) == lastFetchYear # GetFullYear(t)

\* the refresh condition of getUpcomingHolidays and isTodayHoliday
CacheStale(t) == lastFetchYear # GetFullYear(t) \/ Len(holidaysCache) = 0

\* holidaysCache.some(holiday => holiday.date === today)
SomeToday(list, t) == \E i \in 1..Len(list) : list[i].date = ToISODate(t)

IsNightTime(t) == GetHours(t) >= NightFrom \/ GetHours(t) < NightUntil

\* getDaysUntil, with the clock it reads
GetDaysUntil(date, t) == CeilDiv(ParseDate(date) - t, HoursPerDay)

----------------------------------------------------------------------------
(* Messages and delivery errors *)

\* the text of err.message, character by character
Blocked == <<"b", "l", "o", "c", "k", "e", "d">>
ErrBlocked == <<"b", "o", "t", " ", "w", "a", "s", " ">> \o Blocked \o <<" ", "b", "y">>
ErrBlock == <<"b", "l", "o", "c", "k", " ", "e", "d">>
ErrNotFound == <<"n", "o", "t", " ", "f", "o", "u", "n", "d">>
ErrorTexts == {ErrBlocked, ErrBlock, ErrNotFound}

\* String.prototype.includes
Includes(text, pat) ==
    \E i \in 1..(Len(text) - Len(pat) + 1) : SubSeq(text, i, i + Len(pat) - 1) = pat

\* the numbered list of the welcome message; the empty list stands for the
\* "no upcoming holidays found" line (upcomingHolidays.length > 0 is false)
Listed(upcoming, t) ==
    [i \in 1..Len(upcoming) |->
        [localName |-> upcoming[i].localName,
         daysUntil |-> GetDaysUntil(upcoming[i].date, t)]]

Message(kind, chatId, listed) == [kind |-> kind, chatId |-> chatId, listed |-> listed]

WelcomeMessage(chatId, upcoming, t) == Message("welcome", chatId, Listed(upcoming, t))

TestMessage(chatId) == Message("test", chatId, <<>>)

BroadcastMessage(chatId) == Message("broadcast", chatId, <<>>)

InFlight(kind, chatId) == \E m \in sends : m.kind = kind /\ m.chatId = chatId

\* the .catch callback of the broadcast send (part_000)
BroadcastCatch(ids, chatId, err) ==
    IF Includes(err, Blocked) THEN ids \ {chatId} ELSE ids

\* a handler that drops the subscriber on every failure
DropOnAnyError(ids, chatId, err) == ids \ {chatId}

\* the .catch callback of the test message send (index.ts)
TestMessageCatch(ids, chatId, err) ==
    IF Includes(err, Blocked) THEN ids \ {chatId} ELSE ids

\* what the runtime does with a rejected promise nobody handles: it ends the
\* process, or only warns, depending on its version and flags
UnhandledRejection == {"crashed", "running"}

----------------------------------------------------------------------------
(* The plural forms of the unit word *)

\* the three forms: "день", "дня", "дней"
One == "den"
Few == "dnya"
Many == "dney"

\* a rule that forgets the exception for 11..14
FormatDaysNoTeens(days) ==
    IF days % 10 = 1 THEN <<days, One>>
    ELSE IF (days % 10) \in {2, 3, 4} THEN <<days, Few>>
         ELSE <<days, Many>>

\* formatDays: the number and the unit word
FormatDays(days) ==
    IF days = 1 \/ (days % 10 = 1 /\ days % 100 # 11) THEN <<days, One>>
    ELSE IF (days % 10) \in {2, 3, 4} /\ (days % 100) \notin {12, 13, 14}
         THEN <<days, Few>>
         ELSE <<days, Many>>

\* the unit word of the broadcast text (part_000, line 39)
BroadcastUnit(daysUntil) ==
    IF daysUntil = 1 THEN One ELSE IF daysUntil < 5 THEN Few ELSE Many

\* the text returned when no holiday lies ahead (part_000, line 42)
NotFound == [name |-> "", daysUntil |-> 0, unit |-> "none"]

\* getNextHoliday of part_000, on the list the calendar answered for the
\* current and the next year
GetNextHoliday(holidays, t) ==
    LET upcomingHolidays == SortByDate(FutureOnly(holidays, t))
    IN  IF Len(upcomingHolidays) > 0
        THEN LET daysUntil ==
                     CeilDiv(ParseDate(upcomingHolidays[1].date) - t, HoursPerDay)
             IN  [name |-> upcomingHolidays[1].name,
                  daysUntil |-> daysUntil,
                  unit |-> BroadcastUnit(daysUntil)]
        ELSE NotFound

----------------------------------------------------------------------------
(* The registry and the /health report *)

\* a registry that holds the latest subscriber only
AddReplacing(ids, chatId) == {chatId}

\* activeChatIds.add(ctx.chat.id) on a Set
Add(ids, chatId) == ids \cup {chatId}

\* a report that tells only whether anyone is subscribed
ReportAnySubscriber(ids) ==
    [status |-> "ok", activeChats |-> IF ids = {} THEN 0 ELSE 1]

\* the body of the /health response (uptime and timestamp are not kept)
HealthReport(ids) == [status |-> "ok", activeChats |-> Cardinality(ids)]

NoHealth == [report |-> [status |-> "none", activeChats |-> 0], added |-> 0]

\* the history of the last response h when the registry goes from ids to
\* ids2: one new subscription is counted; after a removal or a second new
\* subscription the response is no longer compared with the next one
Since(h, ids, ids2) ==
    IF h = NoHealth \/ ids2 = ids THEN h
    ELSE IF h.added = 0 /\ ids \subseteq ids2
                 /\ Cardinality(ids2) = Cardinality(ids) + 1
         THEN [h EXCEPT !.added = 1]
         ELSE NoHealth

\* the sends in flight whose failure handler can touch the registry entry of
\* chatId
Removing(chatId) == {m \in sends : m.chatId = chatId /\ m.kind # "welcome"}

----------------------------------------------------------------------------
(* State *)

Idle == [pc |-> "idle", chatId |-> 0, now |-> 0, cur |-> <<>>]

NoSel == [list |-> <<>>, now |-> 0, count |-> 0, out |-> <<>>, prev |-> <<>>, calls |-> 0]

StartTime == TimeOf(1, DaysPerYear - 1, StartHour)

EndTime == StartTime + MaxTicks * DelayHours

Init ==
    /\ now = StartTime
    /\ proc = "running"
    /\ activeChatIds = {}
    /\ holidaysCache = <<>>
    /\ lastFetchYear = 0
    /\ st = Idle
    /\ chk = Idle
    /\ timers = {}
    /\ sends = {}
    /\ sel = NoSel
    /\ health = NoHealth
    /\ stale = {}
    /\ failedYear = 0

----------------------------------------------------------------------------
(* bot.start *)

\* lines 127-178 once getUpcomingHolidays has returned: build the welcome
\* message, reply, arm the delayed check
ReplyAndArm(chatId, upcoming) ==
    /\ ~InFlight("welcome", chatId)
    /\ Cardinality(sends) < MaxInFlight
    /\ [chatId |-> chatId, due |-> now + DelayHours] \notin timers
    /\ sends' = sends \cup {WelcomeMessage(chatId, upcoming, now)}
    /\ timers' = timers \cup {[chatId |-> chatId, due |-> now + DelayHours]}

\* a /start arrives: registry add, then getUpcomingHolidays(2) up to its
\* first await (or to the end of the handler when the cache is fresh)
Start(chatId) ==
    /\ proc = "running"
    /\ st.pc = "idle"
    /\ activeChatIds' = Add(activeChatIds, chatId)
    /\ health' = Since(health, activeChatIds, activeChatIds')
    /\ stale' = stale \cup Removing(chatId)
    /\ IF CacheStale(now)
       THEN /\ st' = [pc |-> "fetchCurrent", chatId |-> chatId, now |-> now, cur |-> <<>>]
            /\ UNCHANGED <<sends, timers>>
       ELSE /\ ReplyAndArm(chatId, UpcomingFrom(holidaysCache, now, WelcomeCount))
            /\ UNCHANGED st
    /\ UNCHANGED <<now, proc, holidaysCache, lastFetchYear, chk, sel, failedYear>>

\* getHolidaysForRegion(currentYear) settles
StartFetchedCurrent(ok) ==
    /\ proc = "running"
    /\ st.pc = "fetchCurrent"
    /\ st' = [st EXCEPT !.pc = "fetchNext",
                        !.cur = GetHolidaysForRegion(GetFullYear(st.now), ok)]
    /\ failedYear' = IF ok THEN failedYear ELSE GetFullYear(st.now)
    /\ UNCHANGED <<now, proc, activeChatIds, holidaysCache, lastFetchYear,
                   chk, timers, sends, sel, health, stale>>

\* getHolidaysForRegion(currentYear + 1) settles: the cache is replaced and
\* the handler runs to its end
StartFetchedNext(ok) ==
    /\ proc = "running"
    /\ st.pc = "fetchNext"
    /\ holidaysCache' = st.cur \o GetHolidaysForRegion(GetFullYear(st.now) + 1, ok)
    /\ lastFetchYear' = GetFullYear(st.now)
    /\ ReplyAndArm(st.chatId, UpcomingFrom(holidaysCache', st.now, WelcomeCount))
    /\ st' = Idle
    /\ failedYear' = IF ok THEN failedYear ELSE GetFullYear(st.now)
    /\ UNCHANGED <<now, proc, activeChatIds, chk, sel, health, stale>>

----------------------------------------------------------------------------
(* The delayed check *)

\* a send that is dropped when the addressee has left the registry
SendIfSubscribed(chatId) ==
    IF chatId \in activeChatIds
    THEN /\ ~InFlight("test", chatId)
         /\ Cardinality(sends) < MaxInFlight
         /\ sends' = sends \cup {TestMessage(chatId)}
    ELSE UNCHANGED sends

\* lines 163-174: the test message is handed to the transport
SendTestMessage(chatId) ==
    /\ ~InFlight("test", chatId)
    /\ Cardinality(sends) < MaxInFlight
    /\ sends' = sends \cup {TestMessage(chatId)}

\* the else branch, line 176: only a log line
SkipTestMessage == UNCHANGED sends

\* a timer armed by bot.start comes due: isNightTime(), then isTodayHoliday()
\* up to its await (or to the end of the callback when the cache is fresh)
TimerFires(tm) ==
    /\ proc = "running"
    /\ tm \in timers
    /\ tm.due <= now
    /\ timers' = timers \ {tm}
    /\ IF IsNightTime(now)
       THEN SkipTestMessage /\ UNCHANGED chk
       ELSE IF CacheStale(now)
            THEN /\ chk.pc = "idle"
                 /\ chk' = [pc |-> "fetchCurrent", chatId |-> tm.chatId,
                            now |-> now, cur |-> <<>>]
                 /\ UNCHANGED sends
            ELSE /\ IF SomeToday(holidaysCache, now)
                    THEN SkipTestMessage
                    ELSE SendTestMessage(tm.chatId)
                 /\ UNCHANGED chk
    /\ UNCHANGED <<now, proc, activeChatIds, holidaysCache, lastFetchYear, st, sel,
                   health, stale, failedYear>>

\* getHolidaysForRegion(currentYear) inside isTodayHoliday settles: the cache
\* is replaced by the current year's list and the callback runs to its end
CheckFetched(ok) ==
    /\ proc = "running"
    /\ chk.pc = "fetchCurrent"
    /\ holidaysCache' = GetHolidaysForRegion(GetFullYear(chk.now), ok)
    /\ lastFetchYear' = GetFullYear(chk.now)
    /\ IF SomeToday(holidaysCache', chk.now)
       THEN SkipTestMessage
       ELSE SendTestMessage(chk.chatId)
    /\ chk' = Idle
    /\ UNCHANGED <<now, proc, activeChatIds, st, timers, sel, health, stale, failedYear>>

----------------------------------------------------------------------------
(* The periodic broadcast (part_000) *)

\* a loop that stops after the first subscriber
FirstTargetOnly(ids) == IF ids = {} THEN {} ELSE {CHOOSE c \in ids : \A d \in ids : c <= d}

\* activeChatIds.forEach: one sendMessage call per element of the set
BroadcastTargets(ids) == ids

BroadcastTick ==
    /\ proc = "running"
    /\ activeChatIds # {}
    /\ \A c \in BroadcastTargets(activeChatIds) : ~InFlight("broadcast", c)
    /\ Cardinality(sends) + Cardinality(BroadcastTargets(activeChatIds)) <= MaxInFlight
    /\ sends' = sends \cup {BroadcastMessage(c) : c \in BroadcastTargets(activeChatIds)}
    /\ UNCHANGED <<now, proc, activeChatIds, holidaysCache, lastFetchYear,
                   st, chk, timers, sel, health, stale, failedYear>>

----------------------------------------------------------------------------
(* The transport settles a send *)

Delivered(m) ==
    /\ proc = "running"
    /\ m \in sends
    /\ sends' = sends \ {m}
    /\ stale' = stale \ {m}
    /\ UNCHANGED <<now, proc, activeChatIds, holidaysCache, lastFetchYear,
                   st, chk, timers, sel, health, failedYear>>

\* ctx.reply(message) rejects: the promise has no handler
WelcomeRejected(m, err, outcome) ==
    /\ proc = "running"
    /\ m \in sends
    /\ m.kind = "welcome"
    /\ sends' = sends \ {m}
    /\ proc' = outcome
    /\ UNCHANGED <<now, activeChatIds, holidaysCache, lastFetchYear,
                   st, chk, timers, sel, health, stale, failedYear>>

\* the test message rejects: the .catch callback of lines 168-173 runs
TestMessageRejected(m, err) ==
    /\ proc = "running"
    /\ m \in sends
    /\ m.kind = "test"
    /\ sends' = sends \ {m}
    /\ activeChatIds' = TestMessageCatch(activeChatIds, m.chatId, err)
    /\ health' = Since(health, activeChatIds, activeChatIds')
    /\ stale' = stale \ {m}
    /\ UNCHANGED <<now, proc, holidaysCache, lastFetchYear, st, chk, timers, sel,
                   failedYear>>

\* a broadcast send rejects: the .catch callback of part_000 runs
BroadcastRejected(m, err) ==
    /\ proc = "running"
    /\ m \in sends
    /\ m.kind = "broadcast"
    /\ sends' = sends \ {m}
    /\ activeChatIds' = BroadcastCatch(activeChatIds, m.chatId, err)
    /\ health' = Since(health, activeChatIds, activeChatIds')
    /\ stale' = stale \ {m}
    /\ UNCHANGED <<now, proc, holidaysCache, lastFetchYear, st, chk, timers, sel,
                   failedYear>>

----------------------------------------------------------------------------
(* The HTTP server *)

\* GET /health, from a monitor or from the self-ping of lines 201-211
Health ==
    /\ proc = "running"
    /\ health' = [report |-> HealthReport(activeChatIds), added |-> 0]
    /\ UNCHANGED <<now, proc, activeChatIds, holidaysCache, lastFetchYear,
                   st, chk, timers, sends, sel, stale, failedYear>>

----------------------------------------------------------------------------
(* The clock *)

\* Time passes, one delay at a time.  Sends and the holiday check settle
\* within the hour; a due timer fires before the next hour; a /start
\* handler's fetch is outstanding over at most one step of the clock.
Tick ==
    /\ proc = "running"
    /\ now + DelayHours <= EndTime
    /\ sends = {}
    /\ chk.pc = "idle"
    /\ st.pc # "idle" => st.now = now
    /\ \A tm \in timers : tm.due > now
    /\ now' = now + DelayHours
    /\ UNCHANGED <<proc, activeChatIds, holidaysCache, lastFetchYear,
                   st, chk, timers, sends, sel, health, stale, failedYear>>

----------------------------------------------------------------------------

Next ==
    \/ \E c \in Chats : Start(c)
    \/ \E ok \in BOOLEAN : StartFetchedCurrent(ok)
    \/ \E ok \in BOOLEAN : StartFetchedNext(ok)
    \/ \E tm \in timers : TimerFires(tm)
    \/ \E ok \in BOOLEAN : CheckFetched(ok)
    \/ BroadcastTick
    \/ \E m \in sends : Delivered(m)
    \/ \E m \in sends, err \in ErrorTexts, outcome \in UnhandledRejection :
            WelcomeRejected(m, err, outcome)
    \/ \E m \in sends, err \in ErrorTexts : TestMessageRejected(m, err)
    \/ \E m \in sends, err \in ErrorTexts : BroadcastRejected(m, err)
    \/ Health
    \/ Tick

Spec == Init /\ [][Next]_vars

----------------------------------------------------------------------------
(* The selector on its own: any list, any now, any count *)

HolidayPool ==
    { [date |-> <<1, 1>>, localName |-> "A", global |-> TRUE, counties |-> {}],
      [date |-> <<1, 1>>, localName |-> "A2", global |-> TRUE, counties |-> {}],
      [date |-> <<1, 2>>, localName |-> "B", global |-> TRUE, counties |-> {}],
      [date |-> <<2, 0>>, localName |-> "C", global |-> TRUE, counties |-> {}] }

HolidayLists == UNION {[1..n -> HolidayPool] : n \in 0..MaxLen}

SelectorTimes ==
    {TimeOf(1, 0, 12), TimeOf(1, 1, 0), TimeOf(1, 1, 5), TimeOf(1, 2, 0), TimeOf(2, 0, 0)}

InitSelector ==
    /\ now = StartTime
    /\ proc = "running"
    /\ activeChatIds = {}
    /\ holidaysCache = <<>>
    /\ lastFetchYear = 0
    /\ st = Idle
    /\ chk = Idle
    /\ timers = {}
    /\ sends = {}
    /\ health = NoHealth
    /\ stale = {}
    /\ failedYear = 0
    /\ sel \in [list : HolidayLists, now : SelectorTimes, count : 0..MaxCount,
                out : {<<>>}, prev : {<<>>}, calls : {0}]

\* one call of the selector on the list held, at the time given
SelectorCall ==
    /\ sel.calls < 2
    /\ sel' = [sel EXCEPT !.calls = @ + 1,
                          !.prev = sel.out,
                          !.out = UpcomingFrom(sel.list, sel.now, sel.count)]
    /\ UNCHANGED <<now, proc, activeChatIds, holidaysCache, lastFetchYear,
                   st, chk, timers, sends, health, stale, failedYear>>

NextSelector == SelectorCall

SpecSelector == InitSelector /\ [][NextSelector]_vars

----------------------------------------------------------------------------
(* The plural forms on their own: any number of days, any holiday ahead *)

\* the date of the n-th day counted from day 0 of year 0
DateOfDay(n) == <<n \div DaysPerYear, n % DaysPerYear>>

\* the day getNextHoliday runs on: day 0 of year 1
Today == 1 * DaysPerYear

FormatHours == {0, 12}

\* formatDays is given sel.days; getNextHoliday runs at sel.now with a
\* calendar whose next holiday is sel.days days after today's midnight (the
\* day after that is a holiday too, and comes first in the list)
InitFormat ==
    /\ now = StartTime
    /\ proc = "running"
    /\ activeChatIds = {}
    /\ holidaysCache = <<>>
    /\ lastFetchYear = 0
    /\ st = Idle
    /\ chk = Idle
    /\ timers = {}
    /\ sends = {}
    /\ health = NoHealth
    /\ stale = {}
    /\ failedYear = 0
    /\ \E d \in 0..MaxDays, h \in FormatHours :
          sel = [days |-> d,
                 now |-> ParseDate(DateOfDay(Today)) + h,
                 list |-> << [date |-> DateOfDay(Today + d + 1), name |-> "N2"],
                             [date |-> DateOfDay(Today + d), name |-> "N1"] >>,
                 formatted |-> <<>>,
                 next |-> NotFound,
                 calls |-> {}]

FormatDaysCall ==
    /\ "formatDays" \notin sel.calls
    /\ sel' = [sel EXCEPT !.formatted = FormatDays(sel.days),
                          !.calls = @ \cup {"formatDays"}]
    /\ UNCHANGED <<now, proc, activeChatIds, holidaysCache, lastFetchYear,
                   st, chk, timers, sends, health, stale, failedYear>>

GetNextHolidayCall ==
    /\ "getNextHoliday" \notin sel.calls
    /\ sel' = [sel EXCEPT !.next = GetNextHoliday(sel.list, sel.now),
                          !.calls = @ \cup {"getNextHoliday"}]
    /\ UNCHANGED <<now, proc, activeChatIds, holidaysCache, lastFetchYear,
                   st, chk, timers, sends, health, stale, failedYear>>

NextFormat == FormatDaysCall \/ GetNextHolidayCall

SpecFormat == InitFormat /\ [][NextFormat]_vars

----------------------------------------------------------------------------
(* Properties *)

\* the region's holidays of a year, as the source has them
RegionHolidays(year) == HdGetHolidays(year)

\* the time getUpcomingHolidays read when the call that ends in this step began
SelectorNow == IF st.pc = "fetchNext" THEN st.now ELSE now

\* the fetches of the call that ends in this step (if it made any) succeeded
OwnFetchesSucceeded ==
    st.pc = "fetchNext" =>
        /\ st.cur = RegionHolidays(GetFullYear(st.now))
        /\ holidaysCache' = st.cur \o RegionHolidays(GetFullYear(st.now) + 1)

\* C1: every getUpcomingHolidays(2) call of the cached variant (its own
\* fetches, if any, having succeeded) yields what the uncached selector
\* computes from the source for the same now: the first two region holidays
\* of the current and the next year that lie after now, ascending.  The
\* result is read off the welcome message the call feeds.
C1_UpcomingMatchesSource ==
    [][\A m \in sends' \ sends :
          (m.kind = "welcome" /\ OwnFetchesSucceeded)
          => m.listed = Listed(UncachedUpcoming(SelectorNow, WelcomeCount), now)]_vars

\* C2: whatever list the selector holds, whatever now and count, it returns
\* only holidays dated strictly after now, in ascending date order, at most
\* count of them, and a second call on the same list at the same now returns
\* the same sequence.
C2_SelectorContract ==
    sel.calls >= 1 =>
        /\ \A i \in 1..Len(sel.out) : ParseDate(sel.out[i].date) > sel.now
        /\ \A i, j \in 1..Len(sel.out) :
              i < j => ParseDate(sel.out[i].date) <= ParseDate(sel.out[j].date)
        /\ Len(sel.out) <= sel.count
        /\ sel.calls = 2 => sel.out = sel.prev

\* a list out of order, holding a holiday dated exactly now, cut to one entry
C2_Witness ==
    /\ sel.calls = 2
    /\ sel.count = 1
    /\ sel.now = TimeOf(1, 1, 0)
    /\ Len(sel.list) = 3
    /\ sel.list[1].date = <<2, 0>>
    /\ sel.list[2].date = <<1, 1>>
    /\ sel.list[3].date = <<1, 2>>
    /\ sel.out = <<sel.list[3]>>

\* C3: when a broadcast send or a test message send fails, an error text
\* containing "blocked" removes exactly the addressee from the registry and
\* any other error text leaves the registry as it was.
C3_FailureRemovesOnlyBlocked ==
    [][\A m \in sends, err \in ErrorTexts :
          (TestMessageRejected(m, err) \/ BroadcastRejected(m, err))
          => activeChatIds' = IF Includes(err, Blocked)
                              THEN activeChatIds \ {m.chatId}
                              ELSE activeChatIds]_vars

\* a chat that subscribed (its timer is still armed) has been removed, the
\* other subscriber is still registered
C3_Witness ==
    \E tm \in timers :
        /\ tm.chatId \notin activeChatIds
        /\ activeChatIds # {}

\* C4: a broadcast tick hands exactly one message to the transport for each
\* identity in the registry at that moment, all of them in the tick itself
\* (none waits for another send to settle), and a failed send is not sent
\* again.
C4_OneAttemptPerSubscriber ==
    [][/\ BroadcastTick =>
            /\ sends' \ sends = {BroadcastMessage(c) : c \in activeChatIds}
            /\ sends \subseteq sends'
            /\ Cardinality(sends' \ sends) = Cardinality(activeChatIds)
       /\ \A m \in sends, err \in ErrorTexts :
            (TestMessageRejected(m, err) \/ BroadcastRejected(m, err))
            => sends' = sends \ {m}]_vars

\* one subscriber's broadcast send has failed with "blocked" (it is gone from
\* the registry) while the other subscriber's send of the tick is in flight
C4_Witness ==
    /\ activeChatIds = {2}
    /\ sends = {BroadcastMessage(2)}
    /\ \E tm \in timers : tm.chatId = 1

\* C5: no delivery failure escapes its handler (the process keeps running),
\* and a delivery failure changes the registry only when its error text
\* contains "blocked".
C5_FailuresRecoveredLocally ==
    [][\A m \in sends, err \in ErrorTexts :
          ( \/ TestMessageRejected(m, err)
            \/ BroadcastRejected(m, err)
            \/ \E outcome \in UnhandledRejection : WelcomeRejected(m, err, outcome) )
          => /\ proc' = "running"
             /\ activeChatIds' # activeChatIds => Includes(err, Blocked)]_vars

\* today (the calendar date of t) is a holiday of the region, by the source
HolidayToday(t) == SomeToday(RegionHolidays(GetFullYear(t)), t)

\* what the claim says of a delayed check for chatId that read the clock at t
\* and ends in this step
CheckVerdict(chatId, t) ==
    /\ TestMessage(chatId) \in sends' \ sends
         <=> (GetHours(t) \in 8..21 /\ ~HolidayToday(t))
    /\ Cardinality(sends' \ sends) <= 1
    /\ activeChatIds' = activeChatIds

\* C6: a delayed check fires once (its timer is gone when it has fired), and
\* the check (its own fetch, if any, having succeeded) sends one test message
\* exactly when the hour is in 08..21 and today is no holiday of the region;
\* otherwise it sends nothing, and in no case touches the registry.
C6_TestMessageIffDayAndNoHoliday ==
    [][/\ \A tm \in timers :
            TimerFires(tm) =>
                /\ tm \notin timers'
                /\ chk' = chk => CheckVerdict(tm.chatId, now)
       /\ CheckFetched(TRUE) => CheckVerdict(chk.chatId, chk.now)]_vars

\* C7: a subscribe handler that has begun goes on to its welcome message and
\* its timer: it is never left suspended in a process that has ended.
C7_SubscribeRunsToItsEnd == ~(st.pc # "idle" /\ proc = "crashed")

\* C8: a failed fetch yields the empty list and nothing is raised (the process
\* runs on); a /start whose two fetches both fail has the subscriber in the
\* registry, sends the welcome message with the no-holidays line (no list),
\* and arms the delayed check.
C8_FetchFailsSoft ==
    [][/\ \A c \in Chats : Start(c) => c \in activeChatIds'
       /\ StartFetchedCurrent(FALSE) => (st'.cur = <<>> /\ proc' = "running")
       /\ CheckFetched(FALSE) => (holidaysCache' = <<>> /\ proc' = "running")
       /\ (StartFetchedNext(FALSE) /\ st.cur = <<>>) =>
            /\ proc' = "running"
            /\ holidaysCache' = <<>>
            /\ Message("welcome", st.chatId, <<>>) \in sends' \ sends
            /\ [chatId |-> st.chatId, due |-> now + DelayHours] \in timers' \ timers]_vars

\* both fetches of a /start have failed: subscriber registered, welcome
\* message without a list in flight, timer armed
C8_Witness ==
    /\ holidaysCache = <<>>
    /\ lastFetchYear = GetFullYear(now)
    /\ \E c \in activeChatIds :
          /\ Message("welcome", c, <<>>) \in sends
          /\ [chatId |-> c, due |-> now + DelayHours] \in timers

\* the cache is due for a refresh at t
RefreshDue(t) == lastFetchYear # GetFullYear(t) \/ holidaysCache = <<>>

\* C9: a call of getUpcomingHolidays or isTodayHoliday made while the year
\* differs from lastFetchYear or the cache is empty fetches (the caller is
\* suspended on the request), and when the fetch settles the cache is
\* replaced by what was fetched and lastFetchYear becomes the year the call
\* read, before the result is computed from the new cache; made while the
\* year is the same and the cache non-empty, the call fetches nothing and
\* leaves cache and lastFetchYear as they are.  Nothing else writes them.
C9_RefreshRule ==
    [][/\ \A c \in Chats :
            Start(c) =>
                /\ UNCHANGED <<holidaysCache, lastFetchYear>>
                /\ IF RefreshDue(now) THEN st'.pc = "fetchCurrent" ELSE st' = st
       /\ \A tm \in timers :
            (TimerFires(tm) /\ ~IsNightTime(now)) =>
                /\ UNCHANGED <<holidaysCache, lastFetchYear>>
                /\ IF RefreshDue(now) THEN chk'.pc = "fetchCurrent" ELSE chk' = chk
       /\ \A ok \in BOOLEAN :
            StartFetchedNext(ok) =>
                /\ lastFetchYear' = GetFullYear(st.now)
                /\ holidaysCache' =
                       st.cur \o GetHolidaysForRegion(GetFullYear(st.now) + 1, ok)
                /\ \E m \in sends' \ sends :
                       m.listed = Listed(UpcomingFrom(holidaysCache', st.now, WelcomeCount), now)
       /\ \A ok \in BOOLEAN :
            CheckFetched(ok) =>
                /\ lastFetchYear' = GetFullYear(chk.now)
                /\ holidaysCache' = GetHolidaysForRegion(GetFullYear(chk.now), ok)
                /\ TestMessage(chk.chatId) \in sends' <=> ~SomeToday(holidaysCache', chk.now)
       /\ (holidaysCache' # holidaysCache \/ lastFetchYear' # lastFetchYear) =>
            \/ st.pc = "fetchNext" /\ st'.pc = "idle"
            \/ chk.pc = "fetchCurrent" /\ chk'.pc = "idle"]_vars

\* a call made in the year after the one the (non-empty) cache was fetched
\* for is suspended on its request
C9_Witness ==
    /\ st.pc = "fetchCurrent"
    /\ lastFetchYear = GetFullYear(StartTime)
    /\ GetFullYear(st.now) = lastFetchYear + 1
    /\ holidaysCache # <<>>

\* C10: isTodayHoliday (its own fetch, if any, having succeeded) returns
\* true exactly when a holiday of the region in the current year is dated
\* today, whatever the cache held before the call.
C10_IsTodayHolidayMatchesSource ==
    [][/\ \A tm \in timers :
            (TimerFires(tm) /\ ~IsNightTime(now) /\ chk' = chk) =>
                (SomeToday(holidaysCache, now) <=> HolidayToday(now))
       /\ CheckFetched(TRUE) =>
            (SomeToday(holidaysCache', chk.now) <=> HolidayToday(chk.now))]_vars

\* C11: a /start of an identity already in the registry leaves the registry
\* as it was, members and count; a /start of an absent identity adds it and
\* raises the count by exactly one.
C11_SubscribeIdempotent ==
    [][\A c \in Chats :
          Start(c) =>
              IF c \in activeChatIds
              THEN /\ activeChatIds' = activeChatIds
                   /\ Cardinality(activeChatIds') = Cardinality(activeChatIds)
              ELSE /\ activeChatIds' = activeChatIds \cup {c}
                   /\ Cardinality(activeChatIds') = Cardinality(activeChatIds) + 1]_vars

\* an identity subscribed one delay ago and again in this hour (both timers
\* are armed) is in the registry once
C11_Witness ==
    \E c \in Chats :
        /\ activeChatIds = {c}
        /\ [chatId |-> c, due |-> now] \in timers
        /\ [chatId |-> c, due |-> now + DelayHours] \in timers

\* C12: a /health request answers status "ok" and activeChats equal to the
\* size of the registry at that moment, and leaves the registry and the
\* holiday cache as they were; when exactly one new subscription and no
\* removal came after the previous response, the answer is the previous
\* activeChats plus one.
C12_HealthReportsRegistrySize ==
    [][Health =>
          /\ health'.report.status = "ok"
          /\ health'.report.activeChats = Cardinality(activeChatIds)
          /\ UNCHANGED <<activeChatIds, holidaysCache, lastFetchYear>>
          /\ health.added = 1 =>
                health'.report.activeChats = health.report.activeChats + 1]_vars

\* a response of 1 has been given, one new subscription followed it, and the
\* registry now holds two identities
C12_Witness ==
    /\ health.report.status = "ok"
    /\ health.report.activeChats = 1
    /\ health.added = 1
    /\ Cardinality(activeChatIds) = 2

\* the plural rule of the unit word, as the claim words it
PluralRule(n) ==
    IF n % 10 = 1 /\ n % 100 # 11 THEN One
    ELSE IF (n % 10) \in {2, 3, 4} /\ (n % 100) \notin {12, 13, 14} THEN Few
         ELSE Many

\* C13: for every n >= 0, formatDays(n) is n followed by the one-form when
\* n mod 10 = 1 and n mod 100 # 11, by the few-form when n mod 10 is 2, 3 or
\* 4 and n mod 100 is not 12, 13 or 14, and by the many-form otherwise; so
\* 1 and 21 take the one-form, 2, 3, 4 the few-form, 0, 11, 12 the many-form.
C13_FormatDaysRule ==
    "formatDays" \in sel.calls =>
        /\ sel.formatted = <<sel.days, PluralRule(sel.days)>>
        /\ sel.days \in {1, 21} => sel.formatted[2] = One
        /\ sel.days \in {2, 3, 4} => sel.formatted[2] = Few
        /\ sel.days \in {0, 11, 12} => sel.formatted[2] = Many

\* formatDays(111): the exception for 11 holds beyond the first hundred
C13_Witness ==
    /\ "formatDays" \in sel.calls
    /\ sel.days = 111
    /\ sel.formatted = <<111, Many>>

\* C14: a timer leaves the armed set only by firing, and a delayed check
\* that fires outside the quiet hours on a day that is no holiday hands the
\* test message to the transport whether or not its identity is still in
\* the registry.
C14_TimerOutlivesRemoval ==
    [][/\ \A tm \in timers : tm \notin timers' => TimerFires(tm)
       /\ \A tm \in timers :
            (TimerFires(tm) /\ chk' = chk /\ ~IsNightTime(now) /\ ~HolidayToday(now))
            => TestMessage(tm.chatId) \in sends' \ sends
       /\ ((\E ok \in BOOLEAN : CheckFetched(ok)) /\ ~HolidayToday(chk.now))
            => TestMessage(chk.chatId) \in sends' \ sends]_vars

\* by day, on no holiday, a test message is in flight to an identity that is
\* not in the registry
C14_Witness ==
    \E c \in Chats :
        /\ c \notin activeChatIds
        /\ TestMessage(c) \in sends
        /\ ~IsNightTime(now)
        /\ ~HolidayToday(now)

\* C15: the unit word of the broadcast text follows the plural rule of
\* formatDays for every daysUntil that getNextHoliday computes.
C15_BroadcastUnitFollowsRule ==
    ("getNextHoliday" \in sel.calls /\ sel.next # NotFound) =>
        sel.next.unit = PluralRule(sel.next.daysUntil)

\* C16: an identity leaves the registry only when a send to it that was
\* started after its latest /start fails with an error text containing
\* "blocked"; the failure of a send started before a re-subscribe leaves the
\* re-subscribed identity in the registry.
C16_OnlyLaterFailureRemoves ==
    [][\A c \in activeChatIds :
          c \notin activeChatIds' =>
              \E m \in sends \ stale, err \in ErrorTexts :
                  /\ m.chatId = c
                  /\ Includes(err, Blocked)
                  /\ TestMessageRejected(m, err) \/ BroadcastRejected(m, err)]_vars

\* C17: after a getUpcomingHolidays call in which a fetch failed, every later
\* getUpcomingHolidays(2) call that reads the same calendar year (its own
\* fetches, if any, succeeding) yields what it yields when no fetch ever
\* failed: the first two region holidays of the current and the next year
\* that lie after now.
C17_FailureDoesNotPoisonCache ==
    [][\A m \in sends' \ sends :
          ( /\ m.kind = "welcome"
            /\ OwnFetchesSucceeded
            /\ failedYear = GetFullYear(SelectorNow) )
          => m.listed = Listed(UncachedUpcoming(SelectorNow, WelcomeCount), now)]_vars

\* C18: every holiday listed in a welcome message is shown with
\* daysUntil >= 1.
C18_ListedDaysAtLeastOne ==
    \A m \in sends :
        m.kind = "welcome" =>
            \A i \in 1..Len(m.listed) : m.listed[i].daysUntil >= 1

====
